---- MODULE Spec2Model ----
(***************************************************************************)
(* Status ledger of the miniature tracker.                                 *)
(*                                                                         *)
(* Three stores implement the ledger operations:                           *)
(*   "crud" - MiniatureDB, the JSON file store of app/crud.py              *)
(*   "pg"   - PostgreSQLDatabase of app/database.py                        *)
(*   "file" - FileDatabase of app/database.py                              *)
(* A behaviour runs against one of them (get_database picks one per        *)
(* deployment).  Spec takes every handler as one atomic step; SpecConc     *)
(* runs two PostgreSQL transactions statement by statement.                *)
(***************************************************************************)
EXTENDS Integers, Sequences, FiniteSets, TLC

VARIABLES backend, now, nextMid, nextEid, data, miniatures, status_log_entries,
          users, outcome, served, txn, lockedBy, trend, stats

\* outcome: how the last request ended: "ok", "not_found" (the handler returned
\* None or False) or "error" (it raised)
vars == <<backend, now, nextMid, nextEid, data, miniatures, status_log_entries,
          users, outcome, served, txn, lockedBy, trend, stats>>

(***************************************************************************)
(* Bounds                                                                  *)
(***************************************************************************)
MaxMinis == 2
MaxEntries == 2
MaxClock == 3

(***************************************************************************)
(* Values                                                                  *)
(***************************************************************************)
None == "None"
Unset == "Unset"
NoDate == -1

Statuses == <<"want_to_buy", "purchased", "assembled", "primed", "game_ready", "parade_ready">>

PaintingStatus == {Statuses[i] : i \in 1..Len(Statuses)}

\* the statuses requests carry
InputStatuses == {"want_to_buy", "purchased"}

Users == {"u1", "u2"}

Backends == {"crud", "pg", "file"}

\* the ids a request can name
Mids == 1..MaxMinis

Eids == 1..MaxEntries

\* the date a request carries: earlier than every reading of the clock
Dates == {0}

StatusLogEntry(id, from_status, to_status, date, notes, is_manual, created_at) ==
    [id |-> id, from_status |-> from_status, to_status |-> to_status, date |-> date,
     notes |-> notes, is_manual |-> is_manual, created_at |-> created_at]

\* request bodies
MiniatureCreate == [status : InputStatuses]

\* a request can set notes to null
MiniatureUpdate == [status : InputStatuses \cup {Unset}, notes : {Unset, None}]

StatusLogEntryCreate ==
    [from_status : {None}, to_status : InputStatuses, date : Dates,
     notes : {None}, is_manual : {TRUE}]

\* a date the request does not set is NoDate
StatusLogEntryUpdate == [date : Dates \cup {NoDate}, notes : {Unset, "n"}]

\* updates.model_dump(exclude_unset=True): the fields the request sets
model_dump_exclude_unset(updates) ==
    {f \in DOMAIN updates : IF f = "date" THEN updates[f] # NoDate ELSE updates[f] # Unset}

RECURSIVE SelectSeq2(_, _)
SelectSeq2(s, keep) ==
    IF s = <<>> THEN <<>>
    ELSE IF Head(s).id \in keep THEN <<Head(s)>> \o SelectSeq2(Tail(s), keep)
         ELSE SelectSeq2(Tail(s), keep)

(***************************************************************************)
(* MiniatureDB (app/crud.py): a JSON list of miniatures, each holding its  *)
(* status_history in insertion order.                                      *)
(***************************************************************************)
\* index of the first item with this id and owner, 0 when there is none
CrudFind(d, miniature_id, user_id) ==
    LET hits == {i \in 1..Len(d) : d[i].id = miniature_id /\ d[i].user_id = user_id}
    IN IF hits = {} THEN 0 ELSE CHOOSE i \in hits : \A j \in hits : i <= j

InitialHistory_FromSelf(status, id, t) ==
    <<StatusLogEntry(id, status, status, t, None, FALSE, t)>>

InitialHistory(status, id, t) ==
    <<StatusLogEntry(id, None, status, t, None, FALSE, t)>>

StatusChanged_Always(old_status, new_status) == TRUE

StatusChanged(old_status, new_status) == old_status # new_status

NewStatus_Keep(update_data, old_status) == old_status

NewStatus(update_data, old_status) ==
    IF update_data.status # Unset THEN update_data.status ELSE old_status

MiniatureDB_create_miniature(miniature, user_id) ==
    /\ backend = "crud"
    /\ nextMid <= MaxMinis /\ nextEid <= MaxEntries /\ now < MaxClock
    /\ now' = now + 1
    /\ data' = Append(data,
                 [id |-> nextMid, user_id |-> user_id, status |-> miniature.status,
                  notes |-> None, created_at |-> now', updated_at |-> now',
                  status_history |-> InitialHistory(miniature.status, nextEid, now')])
    /\ nextMid' = nextMid + 1
    /\ nextEid' = nextEid + 1
    /\ outcome' = "ok"
    /\ UNCHANGED <<backend, trend, stats, miniatures, status_log_entries, users, txn, lockedBy>>

MiniatureDB_update_miniature(miniature_id, updates, user_id) ==
    LET i == CrudFind(data, miniature_id, user_id)
        update_data == model_dump_exclude_unset(updates)
    IN
    /\ backend = "crud"
    /\ IF i = 0
       THEN /\ outcome' = "not_found"
            /\ UNCHANGED <<now, data, nextEid>>
       ELSE IF update_data = {}
       THEN /\ outcome' = "ok"
            /\ UNCHANGED <<now, data, nextEid>>
       ELSE LET current == data[i]
                old_status == current.status
                new_status == NewStatus(updates, old_status)
                changed == StatusChanged(old_status, new_status)
            IN /\ now < MaxClock
               /\ changed => nextEid <= MaxEntries
               /\ now' = now + 1
               /\ data' = [data EXCEPT ![i] =
                     [current EXCEPT
                        !.status = new_status,
                        !.notes = IF updates.notes # Unset THEN updates.notes ELSE @,
                        !.updated_at = now',
                        !.status_history =
                            IF changed
                            THEN Append(@, StatusLogEntry(nextEid, old_status, new_status,
                                                          now', None, FALSE, now'))
                            ELSE @]]
               /\ nextEid' = IF changed THEN nextEid + 1 ELSE nextEid
               /\ outcome' = "ok"
    /\ UNCHANGED <<backend, trend, stats, nextMid, miniatures, status_log_entries, users, txn, lockedBy>>

MiniatureDB_delete_miniature(miniature_id, user_id) ==
    /\ backend = "crud"
    /\ LET kept == {data[i].id : i \in {j \in 1..Len(data) :
                        ~(data[j].id = miniature_id /\ data[j].user_id = user_id)}}
           remaining == SelectSeq2(data, kept)
       IN IF Len(remaining) < Len(data)
          THEN /\ data' = remaining
               /\ outcome' = "ok"
          ELSE /\ UNCHANGED data
               /\ outcome' = "not_found"
    /\ UNCHANGED <<backend, trend, stats, now, nextMid, nextEid, miniatures, status_log_entries, users,
                   txn, lockedBy>>

\* new_entry = StatusLogEntry(**log_entry.model_dump()): every field of the request
\* is taken over, id and created_at are generated
EntryFromCreate(log_entry, id, t) ==
    StatusLogEntry(id, log_entry.from_status, log_entry.to_status, log_entry.date,
                   log_entry.notes, log_entry.is_manual, t)

MiniatureDB_add_status_log_entry(miniature_id, log_entry, user_id) ==
    LET i == CrudFind(data, miniature_id, user_id) IN
    /\ backend = "crud"
    /\ IF i = 0
       THEN /\ outcome' = "not_found"
            /\ UNCHANGED <<now, data, nextEid>>
       ELSE /\ now < MaxClock /\ nextEid <= MaxEntries
            /\ now' = now + 1
            /\ data' = [data EXCEPT ![i] =
                  [@ EXCEPT
                     !.status_history = Append(@, EntryFromCreate(log_entry, nextEid, now')),
                     !.updated_at = now',
                     !.status = log_entry.to_status]]
            /\ nextEid' = nextEid + 1
            /\ outcome' = "ok"
    /\ UNCHANGED <<backend, trend, stats, nextMid, miniatures, status_log_entries, users, txn, lockedBy>>

\* status_history[j].update(update_data): only the keys of the request are written
ApplyEntryUpdate_ToStatus(entry, updates) ==
    [entry EXCEPT !.date = IF updates.date # NoDate THEN updates.date ELSE @,
                  !.notes = IF updates.notes # Unset THEN updates.notes ELSE @,
                  !.to_status = Statuses[1]]

ApplyEntryUpdate(entry, updates) ==
    [entry EXCEPT !.date = IF updates.date # NoDate THEN updates.date ELSE @,
                  !.notes = IF updates.notes # Unset THEN updates.notes ELSE @]

\* index of the first entry of the history with this id, 0 when there is none
EntryIndex(status_history, log_entry_id) ==
    LET hits == {j \in 1..Len(status_history) : status_history[j].id = log_entry_id}
    IN IF hits = {} THEN 0 ELSE CHOOSE j \in hits : \A k \in hits : j <= k

MiniatureDB_update_status_log_entry(miniature_id, log_entry_id, updates, user_id) ==
    LET i == CrudFind(data, miniature_id, user_id)
        j == IF i = 0 THEN 0 ELSE EntryIndex(data[i].status_history, log_entry_id)
        update_data == model_dump_exclude_unset(updates)
    IN
    /\ backend = "crud"
    /\ IF i # 0 /\ j # 0 /\ update_data # {}
       THEN /\ now < MaxClock
            /\ now' = now + 1
            /\ data' = [data EXCEPT ![i] =
                  [@ EXCEPT !.status_history[j] = ApplyEntryUpdate(@, updates),
                            !.updated_at = now']]
            /\ outcome' = "ok"
       ELSE /\ outcome' = "not_found"
            /\ UNCHANGED <<now, data>>
    /\ UNCHANGED <<backend, trend, stats, nextMid, nextEid, miniatures, status_log_entries, users,
                   txn, lockedBy>>

\* variant: the status is recomputed from the entry that is last after the delete
MiniatureDB_delete_status_log_entry_Recomputes(miniature_id, log_entry_id, user_id) ==
    LET i == CrudFind(data, miniature_id, user_id)
        status_history == IF i = 0 THEN <<>> ELSE data[i].status_history
        kept == {status_history[j].id : j \in {k \in 1..Len(status_history) :
                                                status_history[k].id # log_entry_id}}
        remaining == SelectSeq2(status_history, kept)
    IN
    /\ backend = "crud"
    /\ IF i # 0 /\ Len(remaining) < Len(status_history)
       THEN /\ now < MaxClock
            /\ now' = now + 1
            /\ data' = [data EXCEPT ![i] =
                  [@ EXCEPT !.status_history = remaining, !.updated_at = now',
                            !.status = IF remaining = <<>> THEN @
                                       ELSE remaining[Len(remaining)].to_status]]
            /\ outcome' = "ok"
       ELSE /\ outcome' = "not_found"
            /\ UNCHANGED <<now, data>>
    /\ UNCHANGED <<backend, trend, stats, nextMid, nextEid, miniatures, status_log_entries, users,
                   txn, lockedBy>>

MiniatureDB_delete_status_log_entry(miniature_id, log_entry_id, user_id) ==
    LET i == CrudFind(data, miniature_id, user_id)
        status_history == IF i = 0 THEN <<>> ELSE data[i].status_history
        kept == {status_history[j].id : j \in {k \in 1..Len(status_history) :
                                                status_history[k].id # log_entry_id}}
        remaining == SelectSeq2(status_history, kept)
    IN
    /\ backend = "crud"
    /\ IF i # 0 /\ Len(remaining) < Len(status_history)
       THEN /\ now < MaxClock
            /\ now' = now + 1
            /\ data' = [data EXCEPT ![i] =
                  [@ EXCEPT !.status_history = remaining, !.updated_at = now']]
            /\ outcome' = "ok"
       ELSE /\ outcome' = "not_found"
            /\ UNCHANGED <<now, data>>
    /\ UNCHANGED <<backend, trend, stats, nextMid, nextEid, miniatures, status_log_entries, users,
                   txn, lockedBy>>

(***************************************************************************)
(* PostgreSQLDatabase (app/database.py): table miniatures, and table       *)
(* status_log_entries whose rows reference miniatures(id) ON DELETE        *)
(* CASCADE.  A history is read back ORDER BY created_at.                   *)
(***************************************************************************)
MiniatureRow(id, user_id, status, notes, created_at, updated_at) ==
    [id |-> id, user_id |-> user_id, status |-> status, notes |-> notes,
     created_at |-> created_at, updated_at |-> updated_at]

StatusLogRow(id, miniature_id, user_id, from_status, to_status, date, notes, is_manual, at) ==
    [id |-> id, miniature_id |-> miniature_id, user_id |-> user_id,
     from_status |-> from_status, to_status |-> to_status, date |-> date, notes |-> notes,
     is_manual |-> is_manual, created_at |-> at]

\* SELECT ... FROM miniatures WHERE id = $1 AND user_id = $2
SelectMiniature(tbl, miniature_id, user_id) ==
    {r \in tbl : r.id = miniature_id /\ r.user_id = user_id}

\* SELECT ... FROM status_log_entries WHERE miniature_id = $1 ORDER BY created_at
RECURSIVE OrderByCreatedAt(_)
OrderByCreatedAt(rows) ==
    IF rows = {} THEN <<>>
    ELSE LET first == CHOOSE r \in rows : \A q \in rows : r.created_at <= q.created_at
         IN <<StatusLogEntry(first.id, first.from_status, first.to_status, first.date,
                             first.notes, first.is_manual, first.created_at)>>
            \o OrderByCreatedAt(rows \ {first})

SelectStatusHistory(logs, miniature_id) ==
    OrderByCreatedAt({l \in logs : l.miniature_id = miniature_id})

\* the row the INSERT of add_status_log_entry writes: date and created_at are NOW(),
\* is_manual is False, whatever the request said
AddedLogRow(id, miniature_id, user_id, from_status, to_status, notes, t) ==
    StatusLogRow(id, miniature_id, user_id, from_status, to_status, t, notes, FALSE, t)

\* UPDATE miniatures SET status = $1, updated_at = NOW() WHERE id = $2 AND user_id = $3
UpdateMiniatureStatus(tbl, miniature_id, user_id, to_status, t) ==
    {IF r.id = miniature_id /\ r.user_id = user_id
     THEN [r EXCEPT !.status = to_status, !.updated_at = t] ELSE r : r \in tbl}

\* UPDATE miniatures SET <the fields of update_data>, updated_at = $n WHERE id AND user_id
UpdateMiniatureFields(tbl, miniature_id, user_id, updates, t) ==
    {IF r.id = miniature_id /\ r.user_id = user_id
     THEN [r EXCEPT !.status = IF updates.status # Unset THEN updates.status ELSE @,
                    !.notes = IF updates.notes # Unset THEN updates.notes ELSE @,
                    !.updated_at = t]
     ELSE r : r \in tbl}

\* SELECT EXISTS(... sle JOIN miniatures m ... WHERE sle.id = $1 AND
\* sle.miniature_id = $2 AND m.user_id = $3)
LogExists(tbl, logs, log_id, miniature_id, user_id) ==
    \E l \in logs : \E m \in tbl :
        l.id = log_id /\ l.miniature_id = miniature_id /\ m.id = l.miniature_id
        /\ m.user_id = user_id

PostgreSQLDatabase_create_miniature(miniature, user_id) ==
    /\ backend = "pg"
    /\ nextMid <= MaxMinis /\ nextEid <= MaxEntries /\ now < MaxClock
    /\ now' = now + 1
    /\ miniatures' = miniatures \cup
          {MiniatureRow(nextMid, user_id, miniature.status, None, now', now')}
    /\ status_log_entries' = status_log_entries \cup
          {StatusLogRow(nextEid, nextMid, user_id, None, miniature.status, now', None,
                        FALSE, now')}
    /\ nextMid' = nextMid + 1
    /\ nextEid' = nextEid + 1
    /\ outcome' = "ok"
    /\ UNCHANGED <<backend, trend, stats, data, users, txn, lockedBy>>

PostgreSQLDatabase_update_miniature(miniature_id, updates, user_id) ==
    LET update_data == model_dump_exclude_unset(updates)
        current_row == SelectMiniature(miniatures, miniature_id, user_id)
    IN
    /\ backend = "pg"
    /\ IF current_row = {}
       THEN /\ outcome' = "not_found"
            /\ UNCHANGED <<now, miniatures, status_log_entries, nextEid>>
       ELSE IF update_data = {}
       THEN /\ outcome' = "ok"
            /\ UNCHANGED <<now, miniatures, status_log_entries, nextEid>>
       ELSE LET old_status == (CHOOSE r \in current_row : TRUE).status
                new_status == NewStatus(updates, old_status)
                changed == StatusChanged(old_status, new_status)
            IN /\ now < MaxClock
               /\ changed => nextEid <= MaxEntries
               /\ now' = now + 1
               /\ miniatures' = UpdateMiniatureFields(miniatures, miniature_id, user_id,
                                                      updates, now')
               /\ status_log_entries' =
                     IF changed
                     THEN status_log_entries \cup
                            {StatusLogRow(nextEid, miniature_id, user_id, old_status,
                                          new_status, now', None, FALSE, now')}
                     ELSE status_log_entries
               /\ nextEid' = IF changed THEN nextEid + 1 ELSE nextEid
               /\ outcome' = "ok"
    /\ UNCHANGED <<backend, trend, stats, nextMid, data, users, txn, lockedBy>>

\* variant: status_log_entries.miniature_id without ON DELETE CASCADE
PostgreSQLDatabase_delete_miniature_KeepsLogs(miniature_id, user_id) ==
    /\ backend = "pg"
    /\ IF SelectMiniature(miniatures, miniature_id, user_id) # {}
       THEN /\ miniatures' = miniatures \ SelectMiniature(miniatures, miniature_id, user_id)
            /\ UNCHANGED status_log_entries
            /\ outcome' = "ok"
       ELSE /\ UNCHANGED <<miniatures, status_log_entries>>
            /\ outcome' = "not_found"
    /\ UNCHANGED <<backend, trend, stats, now, nextMid, nextEid, data, users, txn, lockedBy>>

PostgreSQLDatabase_delete_miniature(miniature_id, user_id) ==
    /\ backend = "pg"
    /\ IF SelectMiniature(miniatures, miniature_id, user_id) # {}
       THEN /\ miniatures' = miniatures \ SelectMiniature(miniatures, miniature_id, user_id)
            /\ status_log_entries' =
                  {l \in status_log_entries : l.miniature_id # miniature_id}
            /\ outcome' = "ok"
       ELSE /\ UNCHANGED <<miniatures, status_log_entries>>
            /\ outcome' = "not_found"
    /\ UNCHANGED <<backend, trend, stats, now, nextMid, nextEid, data, users, txn, lockedBy>>

PostgreSQLDatabase_add_status_log_entry(miniature_id, from_status, to_status, notes, user_id) ==
    /\ backend = "pg"
    /\ IF ~\E r \in miniatures : r.id = miniature_id
       THEN \* the INSERT violates the foreign key: the transaction is rolled back
            /\ outcome' = "error"
            /\ UNCHANGED <<now, miniatures, status_log_entries, nextEid>>
       ELSE /\ now < MaxClock /\ nextEid <= MaxEntries
            /\ now' = now + 1
            /\ status_log_entries' = status_log_entries \cup
                  {AddedLogRow(nextEid, miniature_id, user_id, from_status, to_status,
                               notes, now')}
            /\ miniatures' = UpdateMiniatureStatus(miniatures, miniature_id, user_id,
                                                   to_status, now')
            /\ nextEid' = nextEid + 1
            /\ outcome' = IF SelectMiniature(miniatures, miniature_id, user_id) # {}
                          THEN "ok" ELSE "not_found"
    /\ UNCHANGED <<backend, trend, stats, nextMid, data, users, txn, lockedBy>>

PostgreSQLDatabase_delete_status_log_entry(miniature_id, log_id, user_id) ==
    /\ backend = "pg"
    /\ IF LogExists(miniatures, status_log_entries, log_id, miniature_id, user_id)
       THEN /\ status_log_entries' =
                  {l \in status_log_entries :
                       ~(l.id = log_id /\ l.miniature_id = miniature_id)}
            /\ outcome' = "ok"
       ELSE /\ UNCHANGED status_log_entries
            /\ outcome' = "not_found"
    /\ UNCHANGED <<backend, trend, stats, now, nextMid, nextEid, data, miniatures, users, txn, lockedBy>>

\* updates.to_status is read first: StatusLogEntryUpdate has no such field, so the
\* handler raises AttributeError as soon as the entry was found, and the
\* transaction is rolled back
PostgreSQLDatabase_update_status_log_entry(miniature_id, log_id, updates, user_id) ==
    /\ backend = "pg"
    /\ outcome' = IF LogExists(miniatures, status_log_entries, log_id, miniature_id, user_id)
                  THEN "error" ELSE "not_found"
    /\ UNCHANGED <<backend, trend, stats, now, nextMid, nextEid, data, miniatures, status_log_entries,
                   users, txn, lockedBy>>

(***************************************************************************)
(* FileDatabase (app/database.py): every user record of the users file     *)
(* holds a list "miniatures" and a list "status_log_entries".              *)
(***************************************************************************)
\* index of the miniature with this id in the user's list, 0 when there is none
FileFind(user_data, miniature_id) ==
    LET hits == {j \in 1..Len(user_data.miniatures) :
                    user_data.miniatures[j].id = miniature_id}
    IN IF hits = {} THEN 0 ELSE CHOOSE j \in hits : \A k \in hits : j <= k

\* miniature.id is read first: MiniatureCreate has no such field, so the handler
\* raises AttributeError for a known user, and ValueError("User not found") otherwise
FileDatabase_create_miniature(miniature, user_id) ==
    /\ backend = "file"
    /\ outcome' = "error"
    /\ UNCHANGED <<backend, trend, stats, now, nextMid, nextEid, data, miniatures, status_log_entries,
                   users, txn, lockedBy>>

FileDatabase_update_miniature(miniature_id, updates, user_id) ==
    LET j == IF user_id \in DOMAIN users THEN FileFind(users[user_id], miniature_id) ELSE 0
        update_data == model_dump_exclude_unset(updates)
    IN
    /\ backend = "file"
    /\ IF j = 0
       THEN /\ outcome' = "not_found"
            /\ UNCHANGED <<now, users>>
       ELSE IF update_data = {}
       THEN /\ outcome' = "ok"
            /\ UNCHANGED <<now, users>>
       ELSE /\ now < MaxClock
            /\ now' = now + 1
            /\ users' = [users EXCEPT ![user_id].miniatures[j] =
                  [@ EXCEPT !.status = IF updates.status # Unset THEN updates.status ELSE @,
                            !.notes = IF updates.notes # Unset THEN updates.notes ELSE @,
                            !.updated_at = now']]
            /\ outcome' = "ok"
    /\ UNCHANGED <<backend, trend, stats, nextMid, nextEid, data, miniatures, status_log_entries,
                   txn, lockedBy>>

FileDatabase_delete_miniature(miniature_id, user_id) ==
    LET j == IF user_id \in DOMAIN users THEN FileFind(users[user_id], miniature_id) ELSE 0
    IN
    /\ backend = "file"
    /\ IF j = 0
       THEN /\ outcome' = "not_found"
            /\ UNCHANGED users
       ELSE /\ users' = [users EXCEPT ![user_id].miniatures =
                  SelectSeq2(@, {@[k].id : k \in (1..Len(@)) \ {j}})]
            /\ outcome' = "ok"
    /\ UNCHANGED <<backend, trend, stats, now, nextMid, nextEid, data, miniatures, status_log_entries,
                   txn, lockedBy>>

\* the entry is appended to the user's own "status_log_entries" list and saved;
\* then Miniature(**status_log_entry) fails validation (no name, no faction, ...)
FileDatabase_add_status_log_entry(miniature_id, from_status, to_status, notes, user_id) ==
    /\ backend = "file"
    /\ IF user_id \notin DOMAIN users
       THEN /\ outcome' = "not_found"
            /\ UNCHANGED <<now, users, nextEid>>
       ELSE /\ now < MaxClock /\ nextEid <= MaxEntries
            /\ now' = now + 1
            /\ users' = [users EXCEPT ![user_id].status_log_entries =
                  Append(@, [id |-> nextEid, from_status |-> from_status,
                             to_status |-> to_status, notes |-> notes,
                             created_at |-> now'])]
            /\ nextEid' = nextEid + 1
            /\ outcome' = "error"
    /\ UNCHANGED <<backend, trend, stats, nextMid, data, miniatures, status_log_entries, txn, lockedBy>>

FileDatabase_delete_status_log_entry(miniature_id, log_id, user_id) ==
    LET j == IF user_id \in DOMAIN users THEN FileFind(users[user_id], miniature_id) ELSE 0
        k == IF j = 0 THEN 0
             ELSE EntryIndex(users[user_id].miniatures[j].status_history, log_id)
    IN
    /\ backend = "file"
    /\ IF k = 0
       THEN /\ outcome' = "not_found"
            /\ UNCHANGED <<now, users>>
       ELSE /\ now < MaxClock
            /\ now' = now + 1
            /\ users' = [users EXCEPT ![user_id].miniatures[j] =
                  [@ EXCEPT !.status_history =
                                SelectSeq2(@, {@[n].id : n \in (1..Len(@)) \ {k}}),
                            !.updated_at = now']]
            /\ outcome' = "ok"
    /\ UNCHANGED <<backend, trend, stats, nextMid, nextEid, data, miniatures, status_log_entries,
                   txn, lockedBy>>

\* updates.to_status is read as soon as the entry was found: AttributeError, before
\* anything is written
FileDatabase_update_status_log_entry(miniature_id, log_id, updates, user_id) ==
    LET j == IF user_id \in DOMAIN users THEN FileFind(users[user_id], miniature_id) ELSE 0
        k == IF j = 0 THEN 0
             ELSE EntryIndex(users[user_id].miniatures[j].status_history, log_id)
    IN
    /\ backend = "file"
    /\ outcome' = IF k = 0 THEN "not_found" ELSE "error"
    /\ UNCHANGED <<backend, trend, stats, now, nextMid, nextEid, data, miniatures, status_log_entries,
                   users, txn, lockedBy>>

(***************************************************************************)
(* What get_miniature / get_all_miniatures read back from the store        *)
(***************************************************************************)
FileMiniatures == UNION {{users[u].miniatures[j] : j \in 1..Len(users[u].miniatures)} :
                         u \in DOMAIN users}

\* the ids of the miniatures that exist
Items ==
    IF backend = "crud" THEN {data[i].id : i \in 1..Len(data)}
    ELSE IF backend = "pg" THEN {r.id : r \in miniatures}
    ELSE {m.id : m \in FileMiniatures}

ItemRow(id) ==
    IF backend = "crud" THEN data[CHOOSE i \in 1..Len(data) : data[i].id = id]
    ELSE IF backend = "pg" THEN CHOOSE r \in miniatures : r.id = id
    ELSE CHOOSE m \in FileMiniatures : m.id = id

Owner(id) == ItemRow(id).user_id

Status(id) == ItemRow(id).status

UpdatedAt(id) == ItemRow(id).updated_at

History(id) ==
    IF backend = "pg" THEN SelectStatusHistory(status_log_entries, id)
    ELSE ItemRow(id).status_history

Last(h) == h[Len(h)]

EntryIds(h) == {h[k].id : k \in 1..Len(h)}

\* the ledger of every item, and its state
Ledgers == [id \in Items |-> [status |-> Status(id), status_history |-> History(id)]]

\* trend: the trend request in hand; none while the ledger is exercised
NoTrend == [pc |-> "none"]

\* stats: the statistics request in hand; none while the ledger is exercised
NoStats == [pc |-> "none"]

\* history variable: the request served last, when it ended "ok"
NoRequest == [op |-> "none", miniature_id |-> 0, log_id |-> 0, user_id |-> None]

Served(op, miniature_id, log_id, user_id, body) ==
    IF outcome' # "ok" THEN NoRequest
    ELSE [op |-> op, miniature_id |-> miniature_id, log_id |-> log_id,
          user_id |-> user_id, body |-> body]

(***************************************************************************)
(* The requests of app/main.py, each served by the store of the deployment *)
(***************************************************************************)
create_miniature(miniature, current_user_id) ==
    /\ \/ MiniatureDB_create_miniature(miniature, current_user_id)
       \/ PostgreSQLDatabase_create_miniature(miniature, current_user_id)
       \/ FileDatabase_create_miniature(miniature, current_user_id)
    /\ served' = Served("create", 0, 0, current_user_id, miniature)

update_miniature(miniature_id, miniature_update, current_user_id) ==
    /\ \/ MiniatureDB_update_miniature(miniature_id, miniature_update, current_user_id)
       \/ PostgreSQLDatabase_update_miniature(miniature_id, miniature_update, current_user_id)
       \/ FileDatabase_update_miniature(miniature_id, miniature_update, current_user_id)
    /\ served' = Served("update", miniature_id, 0, current_user_id, miniature_update)

delete_miniature(miniature_id, current_user_id) ==
    /\ \/ MiniatureDB_delete_miniature(miniature_id, current_user_id)
       \/ PostgreSQLDatabase_delete_miniature(miniature_id, current_user_id)
       \/ FileDatabase_delete_miniature(miniature_id, current_user_id)
    /\ served' = Served("delete", miniature_id, 0, current_user_id, <<>>)

\* DatabaseInterface.add_status_log_entry takes from_status, to_status and notes:
\* the date and the is_manual flag of the request never reach these two stores
add_status_log(miniature_id, log_data, current_user_id) ==
    /\ \/ MiniatureDB_add_status_log_entry(miniature_id, log_data, current_user_id)
       \/ PostgreSQLDatabase_add_status_log_entry(miniature_id, log_data.from_status,
               log_data.to_status, log_data.notes, current_user_id)
       \/ FileDatabase_add_status_log_entry(miniature_id, log_data.from_status,
               log_data.to_status, log_data.notes, current_user_id)
    /\ served' = Served("add_log", miniature_id, 0, current_user_id, log_data)

update_status_log(miniature_id, log_id, log_update, current_user_id) ==
    /\ \/ MiniatureDB_update_status_log_entry(miniature_id, log_id, log_update, current_user_id)
       \/ PostgreSQLDatabase_update_status_log_entry(miniature_id, log_id, log_update,
                                                     current_user_id)
       \/ FileDatabase_update_status_log_entry(miniature_id, log_id, log_update, current_user_id)
    /\ served' = Served("edit_log", miniature_id, log_id, current_user_id, log_update)

delete_status_log(miniature_id, log_id, current_user_id) ==
    /\ \/ MiniatureDB_delete_status_log_entry(miniature_id, log_id, current_user_id)
       \/ PostgreSQLDatabase_delete_status_log_entry(miniature_id, log_id, current_user_id)
       \/ FileDatabase_delete_status_log_entry(miniature_id, log_id, current_user_id)
    /\ served' = Served("delete_log", miniature_id, log_id, current_user_id, <<>>)

Init ==
    /\ backend \in Backends
    /\ now = 0
    /\ nextMid = 1
    /\ nextEid = 1
    /\ data = <<>>
    /\ miniatures = {}
    /\ status_log_entries = {}
    /\ users = [u \in Users |-> [miniatures |-> <<>>, status_log_entries |-> <<>>]]
    /\ outcome = "ok"
    /\ served = NoRequest
    /\ txn = <<>>
    /\ lockedBy = 0
    /\ trend = NoTrend
    /\ stats = NoStats

\* does the store hold this miniature for this user
Finds(miniature_id, user_id) ==
    IF backend = "crud"
    THEN \E i \in 1..Len(data) : data[i].id = miniature_id /\ data[i].user_id = user_id
    ELSE IF backend = "pg"
    THEN \E m \in miniatures : m.id = miniature_id /\ m.user_id = user_id
    ELSE FileFind(users[user_id], miniature_id) # 0

\* does the store hold this entry in the history of this miniature of this user
FindsEntry(miniature_id, log_id, user_id) ==
    IF backend = "crud"
    THEN \E i \in 1..Len(data) :
            /\ data[i].id = miniature_id /\ data[i].user_id = user_id
            /\ \E j \in 1..Len(data[i].status_history) : data[i].status_history[j].id = log_id
    ELSE IF backend = "pg"
    THEN LogExists(miniatures, status_log_entries, log_id, miniature_id, user_id)
    ELSE LET j == FileFind(users[user_id], miniature_id)
         IN j # 0 /\ EntryIndex(users[user_id].miniatures[j].status_history, log_id) # 0

\* A request the store answers without writing anything and without success has
\* the same effect as every other request of its kind with the same answer.
\* "effect" marks the requests that are served or that write.
UpdateAnswer(r) == IF Finds(r[2], r[1]) THEN "effect" ELSE "not_found"

AddAnswer(r) ==
    IF backend = "crud" THEN (IF Finds(r[2], r[1]) THEN "effect" ELSE "not_found")
    ELSE IF backend = "pg"
    THEN (IF \E m \in miniatures : m.id = r[2] THEN "effect" ELSE "error")
    ELSE "effect"

EditAnswer(r) ==
    IF backend = "crud"
    THEN (IF FindsEntry(r[2], r[3], r[1]) /\ model_dump_exclude_unset(r[4]) # {}
          THEN "effect" ELSE "not_found")
    ELSE IF FindsEntry(r[2], r[3], r[1]) THEN "error" ELSE "not_found"

DeleteLogAnswer(r) == IF FindsEntry(r[2], r[3], r[1]) THEN "effect" ELSE "not_found"

\* the answers of a request without effect
Quiet == {"not_found", "error"}

UpdateInputs == Users \X Mids \X MiniatureUpdate

DeleteInputs == Users \X Mids

AddInputs == Users \X Mids \X StatusLogEntryCreate

EditInputs == Users \X Mids \X Eids \X StatusLogEntryUpdate

DeleteLogInputs == Users \X Mids \X Eids

\* the steps: a request with an effect, or one request for each other answer
CreateRequest == \E u \in Users, m \in MiniatureCreate : create_miniature(m, u)

UpdateServed ==
    \E r \in UpdateInputs : UpdateAnswer(r) = "effect" /\ update_miniature(r[2], r[3], r[1])

UpdateRefused ==
    \E a \in Quiet :
        /\ ~(\A q \in UpdateInputs : UpdateAnswer(q) # a)
        /\ LET r == CHOOSE q \in UpdateInputs : UpdateAnswer(q) = a
           IN update_miniature(r[2], r[3], r[1])

DeleteServed ==
    \E r \in DeleteInputs : UpdateAnswer(r) = "effect" /\ delete_miniature(r[2], r[1])

DeleteRefused ==
    \E a \in Quiet :
        /\ ~(\A q \in DeleteInputs : UpdateAnswer(q) # a)
        /\ LET r == CHOOSE q \in DeleteInputs : UpdateAnswer(q) = a
           IN delete_miniature(r[2], r[1])

AddLogServed ==
    \E r \in AddInputs : AddAnswer(r) = "effect" /\ add_status_log(r[2], r[3], r[1])

AddLogRefused ==
    \E a \in Quiet :
        /\ ~(\A q \in AddInputs : AddAnswer(q) # a)
        /\ LET r == CHOOSE q \in AddInputs : AddAnswer(q) = a
           IN add_status_log(r[2], r[3], r[1])

EditLogServed ==
    \E r \in EditInputs : EditAnswer(r) = "effect" /\ update_status_log(r[2], r[3], r[4], r[1])

EditLogRefused ==
    \E a \in Quiet :
        /\ ~(\A q \in EditInputs : EditAnswer(q) # a)
        /\ LET r == CHOOSE q \in EditInputs : EditAnswer(q) = a
           IN update_status_log(r[2], r[3], r[4], r[1])

DeleteLogServed ==
    \E r \in DeleteLogInputs : DeleteLogAnswer(r) = "effect" /\ delete_status_log(r[2], r[3], r[1])

DeleteLogRefused ==
    \E a \in Quiet :
        /\ ~(\A q \in DeleteLogInputs : DeleteLogAnswer(q) # a)
        /\ LET r == CHOOSE q \in DeleteLogInputs : DeleteLogAnswer(q) = a
           IN delete_status_log(r[2], r[3], r[1])

Next ==
    \/ CreateRequest
    \/ UpdateServed
    \/ UpdateRefused
    \/ DeleteServed
    \/ DeleteRefused
    \/ AddLogServed
    \/ AddLogRefused
    \/ EditLogServed
    \/ EditLogRefused
    \/ DeleteLogServed
    \/ DeleteLogRefused

Spec == Init /\ [][Next]_vars

\* only creation, update-item and status-log appends: no edit, no delete
NextAppend ==
    \/ CreateRequest
    \/ UpdateServed
    \/ UpdateRefused
    \/ AddLogServed
    \/ AddLogRefused

SpecAppend == Init /\ [][NextAppend]_vars

(***************************************************************************)
(* Two requests against PostgreSQL at once.  Each handler runs its          *)
(* statements in one transaction on a connection of its own (READ           *)
(* COMMITTED, the default): a statement reads what is committed, UPDATE     *)
(* holds the row lock until the commit, and NOW() is the time the           *)
(* transaction began.                                                       *)
(***************************************************************************)
Txns == {1, 2}

TxnOps == {"update_miniature", "add_status_log_entry"}

IdleTxn ==
    [op |-> "none", pc |-> "idle", miniature_id |-> 0, user_id |-> None, to_status |-> None,
     began |-> 0, old_status |-> None, row |-> {}, logs |-> {}]

\* async with conn.transaction(): BEGIN
Txn_begin(t, op, miniature_id, to_status, user_id) ==
    /\ txn[t].pc = "idle"
    /\ now' = now + 1
    /\ txn' = [txn EXCEPT ![t] = [IdleTxn EXCEPT !.op = op, !.pc = "begun",
                                     !.miniature_id = miniature_id, !.user_id = user_id,
                                     !.to_status = to_status, !.began = now']]
    /\ UNCHANGED <<backend, trend, stats, nextMid, nextEid, data, miniatures, status_log_entries, users,
                   outcome, served, lockedBy>>

\* update_miniature: SELECT status FROM miniatures WHERE id = $1 AND user_id = $2
update_miniature_select(t) ==
    /\ txn[t].op = "update_miniature" /\ txn[t].pc = "begun"
    /\ LET current_row == SelectMiniature(miniatures, txn[t].miniature_id, txn[t].user_id)
       IN /\ current_row # {}
          /\ txn' = [txn EXCEPT ![t].pc = "selected",
                                ![t].old_status = (CHOOSE r \in current_row : TRUE).status]
    /\ UNCHANGED <<backend, trend, stats, now, nextMid, nextEid, data, miniatures, status_log_entries,
                   users, outcome, served, lockedBy>>

\* update_miniature: UPDATE miniatures SET status = $1, updated_at = $2 WHERE ...
\* (updated_at is datetime.utcnow(), read when the statement is built)
update_miniature_update(t) ==
    /\ txn[t].op = "update_miniature" /\ txn[t].pc = "selected"
    /\ lockedBy \in {0, t}
    /\ lockedBy' = t
    /\ now' = now + 1
    /\ txn' = [txn EXCEPT ![t].pc = "updated",
                          ![t].row = {[status |-> txn[t].to_status, updated_at |-> now']}]
    /\ UNCHANGED <<backend, trend, stats, nextMid, nextEid, data, miniatures, status_log_entries, users,
                   outcome, served>>

\* update_miniature: if old_status != new_status: INSERT INTO status_log_entries
\* (date and created_at DEFAULT NOW())
update_miniature_insert(t) ==
    /\ txn[t].op = "update_miniature" /\ txn[t].pc = "updated"
    /\ LET changed == StatusChanged(txn[t].old_status, txn[t].to_status)
       IN /\ txn' = [txn EXCEPT ![t].pc = "written",
                                ![t].logs =
                                    IF changed
                                    THEN {StatusLogRow(nextEid, txn[t].miniature_id,
                                                       txn[t].user_id, txn[t].old_status,
                                                       txn[t].to_status, txn[t].began, None,
                                                       FALSE, txn[t].began)}
                                    ELSE {}]
          /\ nextEid' = IF changed THEN nextEid + 1 ELSE nextEid
    /\ UNCHANGED <<backend, trend, stats, now, nextMid, data, miniatures, status_log_entries, users,
                   outcome, served, lockedBy>>

\* add_status_log_entry: INSERT INTO status_log_entries (..., date, ..., created_at)
\* VALUES (..., NOW(), ..., NOW())
add_status_log_entry_insert(t) ==
    /\ txn[t].op = "add_status_log_entry" /\ txn[t].pc = "begun"
    /\ \E r \in miniatures : r.id = txn[t].miniature_id
    /\ txn' = [txn EXCEPT ![t].pc = "inserted",
                          ![t].logs = {AddedLogRow(nextEid, txn[t].miniature_id,
                                                   txn[t].user_id, None, txn[t].to_status,
                                                   None, txn[t].began)}]
    /\ nextEid' = nextEid + 1
    /\ UNCHANGED <<backend, trend, stats, now, nextMid, data, miniatures, status_log_entries, users,
                   outcome, served, lockedBy>>

\* add_status_log_entry: UPDATE miniatures SET status = $1, updated_at = NOW() WHERE ...
add_status_log_entry_update(t) ==
    /\ txn[t].op = "add_status_log_entry" /\ txn[t].pc = "inserted"
    /\ lockedBy \in {0, t}
    /\ lockedBy' = t
    /\ txn' = [txn EXCEPT ![t].pc = "written",
                          ![t].row = {[status |-> txn[t].to_status,
                                       updated_at |-> txn[t].began]}]
    /\ UNCHANGED <<backend, trend, stats, now, nextMid, nextEid, data, miniatures, status_log_entries,
                   users, outcome, served>>

\* leaving the transaction block: COMMIT makes the writes visible and frees the row
Txn_commit(t) ==
    /\ txn[t].pc = "written"
    /\ miniatures' =
          {IF r.id = txn[t].miniature_id /\ r.user_id = txn[t].user_id /\ txn[t].row # {}
           THEN LET w == CHOOSE w \in txn[t].row : TRUE
                IN [r EXCEPT !.status = w.status, !.updated_at = w.updated_at]
           ELSE r : r \in miniatures}
    /\ status_log_entries' = status_log_entries \cup txn[t].logs
    /\ lockedBy' = IF lockedBy = t THEN 0 ELSE lockedBy
    /\ txn' = [txn EXCEPT ![t].pc = "done"]
    /\ UNCHANGED <<backend, trend, stats, now, nextMid, nextEid, data, users, outcome, served>>

\* the store holds one miniature of u1, as create_miniature left it
InitConc ==
    /\ backend = "pg"
    /\ now = 1
    /\ nextMid = 2
    /\ nextEid = 2
    /\ data = <<>>
    /\ miniatures = {MiniatureRow(1, "u1", Statuses[1], None, 1, 1)}
    /\ status_log_entries = {StatusLogRow(1, 1, "u1", None, Statuses[1], 1, None, FALSE, 1)}
    /\ users = [u \in Users |-> [miniatures |-> <<>>, status_log_entries |-> <<>>]]
    /\ outcome = "ok"
    /\ served = NoRequest
    /\ txn = [t \in Txns |-> IdleTxn]
    /\ lockedBy = 0
    /\ trend = NoTrend
    /\ stats = NoStats

NextConc ==
    \/ \E t \in Txns, op \in TxnOps, s \in InputStatuses : Txn_begin(t, op, 1, s, "u1")
    \/ \E t \in Txns : update_miniature_select(t)
    \/ \E t \in Txns : update_miniature_update(t)
    \/ \E t \in Txns : update_miniature_insert(t)
    \/ \E t \in Txns : add_status_log_entry_insert(t)
    \/ \E t \in Txns : add_status_log_entry_update(t)
    \/ \E t \in Txns : Txn_commit(t)

SpecConc == InitConc /\ [][NextConc]_vars

(***************************************************************************)
(* Trend analysis (PostgreSQLDatabase.get_trend_analysis; the body of      *)
(* FileDatabase.get_trend_analysis is the same text).  A datetime is the   *)
(* record of its calendar date: nothing below reads the time of day.       *)
(***************************************************************************)
Date(year, month, day) == [year |-> year, month |-> month, day |-> day]

\* the proleptic Gregorian calendar of Python's datetime
IsLeap(year) == (year % 4 = 0 /\ year % 100 # 0) \/ year % 400 = 0

DaysInMonth(year, month) ==
    IF month = 2 THEN (IF IsLeap(year) THEN 29 ELSE 28)
    ELSE IF month \in {4, 6, 9, 11} THEN 30 ELSE 31

\* the days of the year before the first of the month
DaysBeforeMonth(year, month) ==
    <<0, 31, 59, 90, 120, 151, 181, 212, 243, 273, 304, 334>>[month]
    + (IF month > 2 /\ IsLeap(year) THEN 1 ELSE 0)

DaysBeforeYear(year) ==
    LET y == year - 1 IN y * 365 + (y \div 4) - (y \div 100) + (y \div 400)

\* datetime.toordinal(): 0001-01-01 is day 1
toordinal(d) == DaysBeforeYear(d.year) + DaysBeforeMonth(d.year, d.month) + d.day

\* datetime.weekday(): Monday is 0, Sunday is 6
weekday(d) == (toordinal(d) + 6) % 7

\* datetime.fromordinal(): the years by cycles of 400, 100, 4 and 1, then the
\* month the rest of the days falls in
fromordinal(ordinal) ==
    LET n == ordinal - 1
        n400 == n \div 146097
        r400 == n % 146097
        n100 == r400 \div 36524
        r100 == r400 % 36524
        n4 == r100 \div 1461
        r4 == r100 % 1461
        n1 == r4 \div 365
        r1 == r4 % 365
        year == n400 * 400 + n100 * 100 + n4 * 4 + n1 + 1
    IN IF n1 = 4 \/ n100 = 4 THEN Date(year - 1, 12, 31)
       ELSE LET month == CHOOSE m \in 1..12 :
                            /\ DaysBeforeMonth(year, m) <= r1
                            /\ r1 < DaysBeforeMonth(year, m) + DaysInMonth(year, m)
            IN Date(year, month, r1 - DaysBeforeMonth(year, month) + 1)

\* d + timedelta(days=n)
timedelta_add(d, n) == fromordinal(toordinal(d) + n)

\* d - timedelta(days=n)
timedelta_sub(d, n) == fromordinal(toordinal(d) - n)

\* datetime.replace(year=, month=) raises ValueError when the day does not
\* exist in the month asked for
ValueError == [raised |-> "ValueError"]

replace(d, year, month) ==
    IF d.day <= DaysInMonth(year, month) THEN Date(year, month, d.day) ELSE ValueError

\* current <= to_datetime, on datetimes
DatetimeLE(a, b) == toordinal(a) <= toordinal(b)

\* strftime: the zero-padded fields of the format, in order ("%Y-%m-%d" gives
\* year, month, day; "%Y-%m" year, month; "%Y" the year alone)
strftime_Ymd(d) == <<d.year, d.month, d.day>>

strftime_Ym(d) == <<d.year, d.month>>

strftime_Y(d) == <<d.year>>

\* a <= b on two strings that strftime made with one format: the first field
\* that differs decides
RECURSIVE StrLE(_, _)
StrLE(a, b) ==
    IF a = <<>> THEN TRUE
    ELSE IF b = <<>> THEN FALSE
    ELSE IF Head(a) # Head(b) THEN Head(a) < Head(b)
    ELSE StrLE(Tail(a), Tail(b))

Granularities == {"day", "week", "month", "year"}

\* as get_period_key, the week keyed by the date itself
get_period_key_WeekIsDay(group_by, date_obj) ==
    IF group_by = "day" THEN strftime_Ymd(date_obj)
    ELSE IF group_by = "week" THEN strftime_Ymd(date_obj)
    ELSE IF group_by = "month" THEN strftime_Ym(date_obj)
    ELSE IF group_by = "year" THEN strftime_Y(date_obj)
    ELSE strftime_Ym(date_obj)

get_period_key(group_by, date_obj) ==
    IF group_by = "day" THEN strftime_Ymd(date_obj)
    ELSE IF group_by = "week"
    THEN LET monday == timedelta_sub(date_obj, weekday(date_obj))
         IN strftime_Ymd(monday)
    ELSE IF group_by = "month" THEN strftime_Ym(date_obj)
    ELSE IF group_by = "year" THEN strftime_Y(date_obj)
    ELSE strftime_Ym(date_obj)

\* one miniature as get_all_miniatures returns it: its cost and its history
TrendMiniature(cost, status_history) == [cost |-> cost, status_history |-> status_history]

TrendEntry(to_status, date) == [to_status |-> to_status, date |-> date]

\* the entries in the order the two nested loops meet them, each with the cost
\* of its miniature
RECURSIVE ScanOrder(_)
ScanOrder(minis) ==
    IF minis = <<>> THEN <<>>
    ELSE LET miniature == Head(minis)
             h == miniature.status_history
         IN [k \in 1..Len(h) |->
                [to_status |-> h[k].to_status, date |-> h[k].date, cost |-> miniature.cost]]
            \o ScanOrder(Tail(minis))

\* as InRange, every date taken
InRange_Always(log_date, from_date, to_date) == TRUE

\* from_date <= log_date.strftime("%Y-%m-%d") <= to_date
InRange(log_date, from_date, to_date) ==
    /\ StrLE(strftime_Ymd(from_date), strftime_Ymd(log_date))
    /\ StrLE(strftime_Ymd(log_date), strftime_Ymd(to_date))

\* no period: most_active_month = None
NoPeriod == <<>>

\* purchases_by_period, a dict: its periods in the order they were first met
PeriodIndex(by_period, period_key) ==
    IF \E i \in 1..Len(by_period) : by_period[i].period = period_key
    THEN CHOOSE i \in 1..Len(by_period) : by_period[i].period = period_key
    ELSE 0

\* purchases_by_period[period_key], which adds the default when the key is new
Touch(by_period, period_key) ==
    IF PeriodIndex(by_period, period_key) # 0 THEN by_period
    ELSE Append(by_period, [period |-> period_key, count |-> 0, cost |-> 0])

\* a cost that is None (Optional[Decimal])
NoCost == -1

\* "if miniature.cost": a missing and a zero cost add nothing
CostOf(cost) == IF cost = NoCost THEN 0 ELSE cost

AddPurchase(by_period, period_key, cost) ==
    LET d == Touch(by_period, period_key)
        i == PeriodIndex(d, period_key)
    IN [d EXCEPT ![i].count = @ + 1, ![i].cost = @ + CostOf(cost)]

\* what the scan reads of each entry: whether its date is in the range, and
\* then its period key
Keyed(entries, from_date, to_date, group_by) ==
    [k \in 1..Len(entries) |->
        LET in_range == InRange(entries[k].date, from_date, to_date)
        IN [in_range |-> in_range,
            period_key |-> IF in_range THEN get_period_key(group_by, entries[k].date)
                           ELSE NoPeriod,
            to_status |-> entries[k].to_status,
            cost |-> entries[k].cost]]

\* the scan of all the entries: purchases_by_period after it
RECURSIVE ScanPurchases(_, _)
ScanPurchases(keyed, by_period) ==
    IF keyed = <<>> THEN by_period
    ELSE LET log_entry == Head(keyed)
         IN ScanPurchases(Tail(keyed),
                IF log_entry.in_range /\ log_entry.to_status = "purchased"
                THEN AddPurchase(by_period, log_entry.period_key, log_entry.cost)
                ELSE by_period)

\* status_changes_by_period[period][status] after the scan: one more for every
\* entry in range with this key and this to_status
StatusChanges(keyed, period_key, status) ==
    Cardinality({k \in 1..Len(keyed) :
        /\ keyed[k].in_range
        /\ keyed[k].period_key = period_key
        /\ keyed[k].to_status = status})

\* the step at the bottom of the enumeration loop
NextPeriod(group_by, current) ==
    IF group_by = "day" THEN timedelta_add(current, 1)
    ELSE IF group_by = "week" THEN timedelta_add(current, 7)
    ELSE IF group_by = "month"
    THEN IF current.month = 12 THEN replace(current, current.year + 1, 1)
         ELSE replace(current, current.year, current.month + 1)
    ELSE IF group_by = "year" THEN replace(current, current.year + 1, current.month)
    ELSE timedelta_add(current, 30)

InSeq(s, x) == \E i \in 1..Len(s) : s[i] = x

\* the while loop: all_periods when it ends, or the ValueError of replace
RECURSIVE EnumeratePeriods(_, _, _, _)
EnumeratePeriods(group_by, current, to_datetime, all_periods) ==
    IF ~DatetimeLE(current, to_datetime)
    THEN [raised |-> None, all_periods |-> all_periods]
    ELSE LET period_key == get_period_key(group_by, current)
             seen == IF InSeq(all_periods, period_key) THEN all_periods
                     ELSE Append(all_periods, period_key)
             next == NextPeriod(group_by, current)
         IN IF next = ValueError THEN ValueError
            ELSE EnumeratePeriods(group_by, next, to_datetime, seen)

\* sorted(all_periods): insertion into an ordered list, on the strings' order
RECURSIVE InsertSorted(_, _)
InsertSorted(s, x) ==
    IF s = <<>> THEN <<x>>
    ELSE IF StrLE(x, Head(s)) THEN <<x>> \o s
    ELSE <<Head(s)>> \o InsertSorted(Tail(s), x)

RECURSIVE sorted(_)
sorted(s) == IF s = <<>> THEN <<>> ELSE InsertSorted(sorted(Tail(s)), Head(s))

\* purchases_by_period[period] for period in sorted(all_periods): the read
\* adds every period the scan did not meet
RECURSIVE TouchAll(_, _)
TouchAll(by_period, periods) ==
    IF periods = <<>> THEN by_period
    ELSE TouchAll(Touch(by_period, Head(periods)), Tail(periods))

RECURSIVE SumOf(_, _)
SumOf(by_period, field) ==
    IF by_period = <<>> THEN 0
    ELSE Head(by_period)[field] + SumOf(Tail(by_period), field)

\* the loop over purchases_by_period.items(), in the dict's order
RECURSIVE MostActive(_, _, _)
MostActive(by_period, max_purchases, most_active_month) ==
    IF by_period = <<>> THEN most_active_month
    ELSE IF Head(by_period).count > max_purchases
    THEN MostActive(Tail(by_period), Head(by_period).count, Head(by_period).period)
    ELSE MostActive(Tail(by_period), max_purchases, most_active_month)

\* round(numer / denom, digits) as a count of the last digit kept: the nearest,
\* a tie going to the even one (the quotient is a binary fraction, hence exact
\* as a float, at every tie the requests below can produce)
RoundedQuotient(numer, denom) ==
    LET q == numer \div denom
        r == numer % denom
    IN IF 2 * r < denom THEN q
       ELSE IF 2 * r > denom THEN q + 1
       ELSE IF q % 2 = 0 THEN q ELSE q + 1

\* what the handler returns, or the exception it leaves with
PostgreSQLDatabase_get_trend_analysis(minis, from_date, to_date, group_by) ==
    LET keyed == Keyed(ScanOrder(minis), from_date, to_date, group_by)
        scanned == ScanPurchases(keyed, <<>>)
        enumerated == EnumeratePeriods(group_by, from_date, to_date, <<>>)
    IN IF enumerated = ValueError THEN [outcome |-> "error", raised |-> "ValueError"]
       ELSE
       LET all_periods == enumerated.all_periods
           periods == sorted(all_periods)
           purchases_by_period == TouchAll(scanned, periods)
           bucket(period) == purchases_by_period[PeriodIndex(purchases_by_period, period)]
           total_purchased == SumOf(purchases_by_period, "count")
           total_spent == SumOf(purchases_by_period, "cost")
           num_periods == IF all_periods # <<>> THEN Len(all_periods) ELSE 1
       IN [outcome |-> "ok",
           purchases_over_time |->
               [i \in 1..Len(periods) |->
                   [date |-> periods[i], count |-> bucket(periods[i]).count]],
           spending_over_time |->
               [i \in 1..Len(periods) |->
                   [date |-> periods[i], count |-> 0,
                    cost |-> IF bucket(periods[i]).cost > 0 THEN bucket(periods[i]).cost
                             ELSE NoCost]],
           status_trends |->
               [s \in 1..Len(Statuses) |->
                   [status |-> Statuses[s],
                    data_points |->
                        [i \in 1..Len(periods) |->
                            [date |-> periods[i],
                             count |-> StatusChanges(keyed, periods[i], Statuses[s])]]]],
           total_purchased |-> total_purchased,
           total_spent |-> IF total_spent > 0 THEN total_spent ELSE NoCost,
           most_active_month |-> MostActive(purchases_by_period, 0, NoPeriod),
           \* in tenths
           average_monthly_purchases |-> RoundedQuotient(total_purchased * 10, num_periods),
           \* in hundredths
           average_monthly_spending |->
               IF total_spent > 0 THEN RoundedQuotient(total_spent * 100, num_periods)
               ELSE NoCost]

\* POST /miniatures/trends: the handler's answer to the request in hand
get_trend_analysis ==
    /\ trend.pc = "asked"
    /\ trend' = [trend EXCEPT
                    !.pc = "done",
                    !.response = PostgreSQLDatabase_get_trend_analysis(
                                     trend.miniatures, trend.from_date, trend.to_date,
                                     trend.group_by)]
    /\ UNCHANGED <<backend, now, nextMid, nextEid, data, miniatures, status_log_entries,
                   users, outcome, served, txn, lockedBy, stats>>

MaxTrendEntries == 2

\* the dates a request is made with: month ends, a leap day, a year's end, and
\* two days of one week (2023-12-25 is a Monday, 2023-12-31 the Sunday after)
RequestDates ==
    {Date(2023, 12, 15), Date(2023, 12, 25), Date(2023, 12, 31), Date(2024, 1, 1),
     Date(2024, 1, 15), Date(2024, 1, 31), Date(2024, 2, 10), Date(2024, 2, 29),
     Date(2024, 3, 5), Date(2024, 3, 20), Date(2024, 4, 30)}

\* TrendRequest.group_by is any string
GroupBys == Granularities \cup {"quarter"}

\* the longest range asked for day by day
MaxDaySpan == 14

\* TrendRequest bodies with both dates given
TrendRequest ==
    {r \in [from_date : RequestDates, to_date : RequestDates, group_by : GroupBys] :
        r.group_by = "day" => toordinal(r.to_date) - toordinal(r.from_date) <= MaxDaySpan}

\* the requests made of a collection that holds entries
ScanRequests ==
    [from_date : {Date(2024, 1, 1), Date(2024, 1, 15)},
     to_date : {Date(2024, 2, 10), Date(2024, 4, 30)},
     group_by : {"month"}]
    \cup [from_date : {Date(2024, 1, 1), Date(2024, 1, 15)},
          to_date : {Date(2024, 2, 10)},
          group_by : {"week"}]

CostValues == {NoCost, 10, 15}

EntryDates == {Date(2024, 1, 5), Date(2024, 2, 5), Date(2024, 3, 5)}

TrendEntries == {TrendEntry(s, d) : s \in {"purchased", "assembled"}, d \in EntryDates}

Histories(n) == UNION {[1..k -> TrendEntries] : k \in 0..n}

\* what get_all_miniatures returns: no miniature, or two with at most
\* MaxTrendEntries entries between them
Collections ==
    {<<>>} \cup
    UNION {{<<TrendMiniature(c1, h1), TrendMiniature(c2, h2)>> :
                c1 \in CostValues, c2 \in CostValues,
                h2 \in Histories(MaxTrendEntries - Len(h1))} :
           h1 \in Histories(MaxTrendEntries)}

TrendAsked(minis, r) ==
    [pc |-> "asked", miniatures |-> minis, from_date |-> r.from_date,
     to_date |-> r.to_date, group_by |-> r.group_by, response |-> [outcome |-> "pending"]]

InitTrends ==
    /\ backend = "pg"
    /\ now = 0
    /\ nextMid = 1
    /\ nextEid = 1
    /\ data = <<>>
    /\ miniatures = {}
    /\ status_log_entries = {}
    /\ users = [u \in Users |-> [miniatures |-> <<>>, status_log_entries |-> <<>>]]
    /\ outcome = "ok"
    /\ served = NoRequest
    /\ txn = <<>>
    /\ lockedBy = 0
    /\ stats = NoStats
    /\ \/ \E r \in TrendRequest : trend = TrendAsked(<<>>, r)
       \/ \E minis \in Collections, r \in ScanRequests : trend = TrendAsked(minis, r)

NextTrends == get_trend_analysis

SpecTrends == InitTrends /\ [][NextTrends]_vars

(***************************************************************************)
(* Collection statistics (get_collection_statistics of PostgreSQLDatabase  *)
(* and of FileDatabase).  A dict is the function from its keys to their    *)
(* values; percentages are held in tenths.                                 *)
(***************************************************************************)
GameSystem ==
    {"warhammer_40k", "age_of_sigmar", "warhammer_the_old_world", "horus_heresy",
     "kill_team", "warcry", "warhammer_underworlds", "adeptus_titanicus", "necromunda",
     "blood_bowl", "middle_earth", "bolt_action", "flames_of_war", "saga", "kings_of_war",
     "infinity", "malifaux", "warmachine_hordes", "x_wing", "star_wars_legion",
     "battletech", "dropzone_commander", "guild_ball", "dungeons_and_dragons",
     "pathfinder", "frostgrave", "mordheim", "gaslands", "zombicide", "trench_crusade",
     "other"}

UnitType == {"infantry", "cavalry", "vehicle", "monster", "character", "terrain", "other"}

\* the fields of a miniature that the statistics read
StatMiniature(status, cost, quantity, game_system, faction, unit_type) ==
    [status |-> status, cost |-> cost, quantity |-> quantity,
     game_system |-> game_system, faction |-> faction, unit_type |-> unit_type]

\* the early return for "not miniatures"
EmptyStatistics_Raises == [outcome |-> "error"]

EmptyStatistics ==
    [outcome |-> "ok", total_units |-> 0, total_models |-> 0, total_cost |-> NoCost,
     status_breakdown |-> <<>>, game_system_breakdown |-> <<>>,
     faction_breakdown |-> <<>>, unit_type_breakdown |-> <<>>,
     completion_percentage |-> 0]

\* sum(...) over the miniatures, in their order
RECURSIVE SumSeq(_)
SumSeq(s) == IF s = <<>> THEN 0 ELSE Head(s) + SumSeq(Tail(s))

\* PaintingStatus.GAME_READY, PaintingStatus.PARADE_READY
CompletedStatuses_ParadeOnly == {"parade_ready"}

CompletedStatuses == {"game_ready", "parade_ready"}

PostgreSQLDatabase_get_collection_statistics(minis) ==
    IF minis = <<>> THEN EmptyStatistics
    ELSE
    LET total_units == Len(minis)
        total_models == SumSeq([i \in 1..Len(minis) |-> minis[i].quantity])
        total_cost == SumSeq([i \in 1..Len(minis) |->
                                 IF minis[i].cost # NoCost THEN minis[i].cost ELSE 0])
        completed_units == Cardinality({i \in 1..Len(minis) :
                                           minis[i].status \in CompletedStatuses})
    IN [outcome |-> "ok",
        total_units |-> total_units,
        total_models |-> total_models,
        total_cost |-> IF total_cost > 0 THEN total_cost ELSE NoCost,
        status_breakdown |->
            [status \in PaintingStatus |->
                Cardinality({i \in 1..Len(minis) : minis[i].status = status})],
        game_system_breakdown |->
            [system \in GameSystem |->
                Cardinality({i \in 1..Len(minis) : minis[i].game_system = system})],
        faction_breakdown |->
            [faction \in {minis[i].faction : i \in 1..Len(minis)} |->
                Cardinality({i \in 1..Len(minis) : minis[i].faction = faction})],
        unit_type_breakdown |->
            [unit_type \in UnitType |->
                Cardinality({i \in 1..Len(minis) : minis[i].unit_type = unit_type})],
        completion_percentage |-> RoundedQuotient(completed_units * 1000, total_units)]

\* completed_statuses = ['painted', 'completed', 'finished']
FileCompletedStatuses == {"painted", "completed", "finished"}

FileDatabase_get_collection_statistics(minis) ==
    IF minis = <<>> THEN EmptyStatistics
    ELSE
    LET total_units == Len(minis)
        total_models == SumSeq([i \in 1..Len(minis) |-> minis[i].quantity])
        total_cost == SumSeq([i \in 1..Len(minis) |->
                                 IF minis[i].cost # NoCost THEN minis[i].cost ELSE 0])
        status_breakdown ==
            [status \in {minis[i].status : i \in 1..Len(minis)} |->
                Cardinality({i \in 1..Len(minis) : minis[i].status = status})]
        completed_units ==
            SumSeq([i \in 1..Len(minis) |->
                       IF minis[i].status \in FileCompletedStatuses THEN 1 ELSE 0])
    IN [outcome |-> "ok",
        total_units |-> total_units,
        total_models |-> total_models,
        total_cost |-> IF total_cost > 0 THEN total_cost ELSE NoCost,
        status_breakdown |-> status_breakdown,
        game_system_breakdown |->
            [system \in {minis[i].game_system : i \in 1..Len(minis)} |->
                Cardinality({i \in 1..Len(minis) : minis[i].game_system = system})],
        faction_breakdown |->
            [faction \in {minis[i].faction : i \in 1..Len(minis)} |->
                Cardinality({i \in 1..Len(minis) : minis[i].faction = faction})],
        unit_type_breakdown |->
            [unit_type \in {minis[i].unit_type : i \in 1..Len(minis)} |->
                Cardinality({i \in 1..Len(minis) : minis[i].unit_type = unit_type})],
        completion_percentage |-> RoundedQuotient(completed_units * 1000, total_units)]

\* GET /miniatures/statistics: the handler's answer to the request in hand
get_collection_statistics ==
    /\ stats.pc = "asked"
    /\ stats' = [stats EXCEPT
                    !.pc = "done",
                    !.response =
                        IF backend = "pg"
                        THEN PostgreSQLDatabase_get_collection_statistics(stats.miniatures)
                        ELSE FileDatabase_get_collection_statistics(stats.miniatures)]
    /\ UNCHANGED <<backend, now, nextMid, nextEid, data, miniatures, status_log_entries,
                   users, outcome, served, txn, lockedBy, trend>>

MaxStatMiniatures == 2

StatStatuses == {"want_to_buy", "primed", "game_ready", "parade_ready"}

StatCosts == {NoCost, 0, 10}

\* quantity, game system, faction and unit type, as four kinds of unit
StatKinds ==
    {<<1, "warhammer_40k", "Orks", "infantry">>,
     <<2, "warhammer_40k", "Orks", "vehicle">>,
     <<1, "warhammer_40k", "Aeldari", "infantry">>,
     <<2, "age_of_sigmar", "Orruks", "monster">>}

StatMiniatures ==
    {StatMiniature(status, cost, kind[1], kind[2], kind[3], kind[4]) :
        status \in StatStatuses, cost \in StatCosts, kind \in StatKinds}

\* what get_all_miniatures returns: up to MaxStatMiniatures miniatures
StatCollections == UNION {[1..n -> StatMiniatures] : n \in 0..MaxStatMiniatures}

StatsAsked(minis) ==
    [pc |-> "asked", miniatures |-> minis, response |-> [outcome |-> "pending"]]

\* FileDatabase.create_miniature always raises: the file store holds no miniature
InitStats ==
    /\ backend \in {"pg", "file"}
    /\ now = 0
    /\ nextMid = 1
    /\ nextEid = 1
    /\ data = <<>>
    /\ miniatures = {}
    /\ status_log_entries = {}
    /\ users = [u \in Users |-> [miniatures |-> <<>>, status_log_entries |-> <<>>]]
    /\ outcome = "ok"
    /\ served = NoRequest
    /\ txn = <<>>
    /\ lockedBy = 0
    /\ trend = NoTrend
    /\ \E minis \in StatCollections :
        /\ backend = "file" => minis = <<>>
        /\ stats = StatsAsked(minis)

NextStats == get_collection_statistics

SpecStats == InitStats /\ [][NextStats]_vars

(***************************************************************************)
(* Claims                                                                  *)
(***************************************************************************)
\* C1: after any sequence of update-item status changes and status-log appends
\* following its creation, an item's stored state is the to_status of the entry
\* appended last (checked under SpecAppend, where nothing else happens).
C1_StateIsLastAppended ==
    \A id \in Items : Status(id) = Last(History(id)).to_status

\* C2: after every completed mutating operation, item.state is the to_status of
\* the last entry of the item's ledger.
C2_StateIsLastEntry ==
    \A id \in Items :
        /\ History(id) # <<>>
        /\ Status(id) = Last(History(id)).to_status

\* C3: no existing item has a ledger with zero entries.
C3_LedgerNeverEmpty ==
    \A id \in Items : History(id) # <<>>

\* C4: two concurrent appends to the same item are serialized: once both have
\* committed, the item's stored state is the to_status of the last entry of the
\* ledger as it is read back, and the entry of each append is in the ledger.
C4_ConcurrentAppendsSerialized ==
    (\A t \in Txns : txn[t].pc = "done") =>
        \A id \in Items :
            /\ Status(id) = Last(History(id)).to_status
            /\ \A t \in Txns : \A l \in txn[t].logs : l.id \in EntryIds(History(id))

\* C5: an update-item request carrying status s appends exactly one entry (to s)
\* when s differs from the item's state, and the same request served again right
\* after it appends nothing.
C5_SecondUpdateAppendsNothing ==
    [][\A id \in Items, s \in InputStatuses :
          (served'.op = "update" /\ served'.miniature_id = id /\ served'.body.status = s) =>
              /\ Status(id)' = s
              /\ Status(id) # s =>
                    /\ Len(History(id)') = Len(History(id)) + 1
                    /\ SubSeq(History(id)', 1, Len(History(id))) = History(id)
                    /\ Last(History(id)').to_status = s
              /\ Status(id) = s => History(id)' = History(id)
              /\ (served.op = "update" /\ served.miniature_id = id /\ served.body.status = s)
                    => History(id)' = History(id)]_vars

\* an update-item request with status s was served when the last entry of the
\* ledger, written by an earlier update to s, was already there
C5_Witness ==
    \E id \in Items :
        /\ served.op = "update" /\ served.miniature_id = id
        /\ served.body.status = Status(id)
        /\ Len(History(id)) >= 2
        /\ Last(History(id)).from_status # None
        /\ Last(History(id)).to_status = Status(id)
        /\ Last(History(id)).created_at < UpdatedAt(id)
        /\ UpdatedAt(id) = now

\* C6: an update-item request whose only content is the item's current status
\* appends no entry, leaves the status alone and leaves updated_at alone.
C6_NoOpUpdateIsPure ==
    [][\A id \in Items :
          (/\ served'.op = "update" /\ served'.miniature_id = id
           /\ served'.body = [status |-> Status(id), notes |-> Unset]) =>
              /\ History(id)' = History(id)
              /\ Status(id)' = Status(id)
              /\ UpdatedAt(id)' = UpdatedAt(id)]_vars

\* C6, as the code has it: an update-item request whose only content is the
\* item's current status appends no entry and leaves the status alone, and it
\* sets the item's updated_at to the time of the request.
C6_NoOpUpdateKeepsLedger ==
    [][\A id \in Items :
          (/\ served'.op = "update" /\ served'.miniature_id = id
           /\ served'.body = [status |-> Status(id), notes |-> Unset]) =>
              /\ History(id)' = History(id)
              /\ Status(id)' = Status(id)
              /\ UpdatedAt(id)' = now'
              /\ (now' # now => UpdatedAt(id)' > UpdatedAt(id))]_vars

\* a request carrying only the item's status was served after the item's last
\* entry was written
C6_Witness ==
    \E id \in Items :
        /\ served.op = "update" /\ served.miniature_id = id
        /\ served.body = [status |-> Status(id), notes |-> Unset]
        /\ History(id) # <<>>
        /\ Last(History(id)).created_at < now
        /\ UpdatedAt(id) = now

\* C7: creating an item with status s writes exactly one entry, from null to s.
C7_CreateWritesInitialEntry ==
    [][served'.op = "create" =>
          \E id \in Items' \ Items :
              /\ Len(History(id)') = 1
              /\ History(id)'[1].from_status = None
              /\ History(id)'[1].to_status = served'.body.status
              /\ Status(id)' = served'.body.status
              /\ \A other \in Items : other \in Items' /\ History(other)' = History(other)]_vars

\* a miniature was just created with status "purchased"
C7_Witness ==
    /\ served.op = "create" /\ served.body.status = "purchased"
    /\ \E id \in Items :
          /\ UpdatedAt(id) = now
          /\ Len(History(id)) = 1
          /\ History(id)[1].to_status = "purchased"
          /\ History(id)[1].from_status = None

\* C8: a status-log append records the date the caller supplied.
C8_AppendKeepsCallerDate ==
    [][\A id \in Items :
          (served'.op = "add_log" /\ served'.miniature_id = id) =>
              Last(History(id)').date = served'.body.date]_vars

\* C9: no step changes the to_status, from_status or created_at of an entry
\* that stays in its ledger, and a served edit of an entry keeps the ledger's
\* length and order, every other entry and the item's status as they were.
C9_EditChangesOnlyDateAndNotes ==
    [][\A id \in Items \cap Items' :
          LET before == History(id)
              after == History(id)'
          IN after # before =>
                /\ \A j \in 1..Len(before), k \in 1..Len(after) :
                       before[j].id = after[k].id =>
                           /\ after[k].to_status = before[j].to_status
                           /\ after[k].from_status = before[j].from_status
                           /\ after[k].created_at = before[j].created_at
                /\ (served'.op = "edit_log" /\ served'.miniature_id = id) =>
                       /\ Len(after) = Len(before)
                       /\ \A j \in 1..Len(before) :
                              /\ after[j].id = before[j].id
                              /\ before[j].id # served'.log_id => after[j] = before[j]
                       /\ Status(id)' = Status(id)]_vars

\* an entry written by an update to "purchased" was edited: it carries the date
\* and the notes of the request
C9_Witness ==
    \E id \in Items :
        /\ served.op = "edit_log" /\ served.miniature_id = id
        /\ served.body = [date |-> 0, notes |-> "n"]
        /\ \E j \in 1..Len(History(id)) :
              /\ History(id)[j].id = served.log_id
              /\ History(id)[j].is_manual = FALSE
              /\ History(id)[j].to_status = "purchased"
              /\ History(id)[j].date = 0
              /\ History(id)[j].notes = "n"
              /\ History(id)[j].created_at > 0

\* the entry is in the ledger of a miniature this user holds
Belongs(miniature_id, log_id, user_id) ==
    /\ miniature_id \in Items
    /\ Owner(miniature_id) = user_id
    /\ log_id \in EntryIds(History(miniature_id))

\* C10: an edit or a delete of an entry ends not-found exactly when the entry is
\* not in the ledger of a miniature the caller holds, and then nothing changes.
C10_NotFoundExactlyWhenForeign ==
    [][/\ \A r \in EditInputs :
             update_status_log(r[2], r[3], r[4], r[1]) =>
                 /\ (outcome' = "not_found") <=> ~Belongs(r[2], r[3], r[1])
                 /\ ~Belongs(r[2], r[3], r[1]) => Ledgers' = Ledgers
       /\ \A r \in DeleteLogInputs :
             delete_status_log(r[2], r[3], r[1]) =>
                 /\ (outcome' = "not_found") <=> ~Belongs(r[2], r[3], r[1])
                 /\ ~Belongs(r[2], r[3], r[1]) => Ledgers' = Ledgers]_vars

\* C11: a trend request with month granularity and from <= to returns exactly
\* months_between(from, to) + 1 buckets, whatever the two days of the month
\* are and also for an owner with no miniature.  Stated here for a from on day
\* 28 or earlier, a day every month has.
C11_MonthBucketCount ==
    (/\ trend.pc = "done"
     /\ trend.group_by = "month"
     /\ DatetimeLE(trend.from_date, trend.to_date)
     /\ trend.from_date.day <= 28)
    => LET months_between == (trend.to_date.year - trend.from_date.year) * 12
                             + trend.to_date.month - trend.from_date.month
       IN /\ trend.response.outcome = "ok"
          /\ Len(trend.response.purchases_over_time) = months_between + 1

\* C12: for each of the four granularities and every from <= to, the series
\* returned holds the bucket key of every date of [from, to] (the bucket of to
\* among them), each key once, in strictly increasing chronological order.
\* Stated here for the requests that return a result.
C12_SeriesCoversRange ==
    (/\ trend.pc = "done"
     /\ trend.group_by \in Granularities
     /\ DatetimeLE(trend.from_date, trend.to_date)
     /\ trend.response.outcome = "ok")
    => LET series == trend.response.purchases_over_time
           keys == {series[i].date : i \in 1..Len(series)}
           days == toordinal(trend.from_date)..toordinal(trend.to_date)
       IN /\ keys = {get_period_key(trend.group_by, fromordinal(n)) : n \in days}
          /\ \A i, j \in 1..Len(series) :
                i < j => /\ series[i].date # series[j].date
                         /\ StrLE(series[i].date, series[j].date)

\* C13: with month or year granularity the enumeration of periods handles the
\* rollovers exactly: starting on day 29, 30 or 31 (on 29 February for years),
\* or passing from December to January, the request ends with a result, and the
\* bucket that follows a month is the next calendar month.
C13_RolloverCompletes ==
    (/\ trend.pc = "done"
     /\ trend.group_by \in {"month", "year"}
     /\ DatetimeLE(trend.from_date, trend.to_date))
    => /\ trend.response.outcome = "ok"
       /\ LET series == trend.response.purchases_over_time
          IN trend.group_by = "month" =>
                \A i \in 1..(Len(series) - 1) :
                    series[i + 1].date =
                        IF series[i].date[2] = 12 THEN <<series[i].date[1] + 1, 1>>
                        ELSE <<series[i].date[1], series[i].date[2] + 1>>

\* C14: the period key is defined for every date and depends on the date and
\* the granularity alone: the date itself for day, the Monday on or before it
\* for week, its year and month for month, its year for year; two dates get
\* the same key exactly when they lie in the same day, the same Monday-to-Sunday
\* week, the same month or the same year.  Checked on the dates of each request
\* served (from, to and the dates of the entries scanned) under its granularity,
\* the first bucket returned being the key of from.
C14_PeriodKeyIsTheBucket ==
    (trend.pc = "done" /\ trend.group_by \in Granularities)
    => LET g == trend.group_by
           minis == trend.miniatures
           dates == {trend.from_date, trend.to_date}
                    \cup UNION {{minis[i].status_history[k].date :
                                    k \in 1..Len(minis[i].status_history)} :
                                i \in 1..Len(minis)}
           \* ordinal 1 is a Monday, and so is every ordinal that is 1 modulo 7
           Mondays(d) == {n \in (toordinal(d) - 6)..toordinal(d) : n % 7 = 1}
           SamePeriod(d, e) ==
               IF g = "day" THEN d = e
               ELSE IF g = "week" THEN Mondays(d) = Mondays(e)
               ELSE IF g = "month" THEN d.year = e.year /\ d.month = e.month
               ELSE d.year = e.year
       IN /\ \A d \in dates :
                get_period_key(g, d) =
                    IF g = "day" THEN <<d.year, d.month, d.day>>
                    ELSE IF g = "week"
                    THEN LET m == fromordinal(CHOOSE n \in Mondays(d) : TRUE)
                         IN <<m.year, m.month, m.day>>
                    ELSE IF g = "month" THEN <<d.year, d.month>>
                    ELSE <<d.year>>
          /\ \A d, e \in dates :
                (get_period_key(g, d) = get_period_key(g, e)) <=> SamePeriod(d, e)
          /\ (trend.response.outcome = "ok" /\ DatetimeLE(trend.from_date, trend.to_date))
                => trend.response.purchases_over_time[1].date
                       = get_period_key(g, trend.from_date)

\* a week asked for from its Monday to its Sunday is one bucket, named by the Monday
C14_Witness ==
    /\ trend.pc = "done"
    /\ trend.group_by = "week"
    /\ trend.from_date = Date(2023, 12, 25)
    /\ trend.to_date = Date(2023, 12, 31)
    /\ trend.response.outcome = "ok"
    /\ Len(trend.response.purchases_over_time) = 1
    /\ trend.response.purchases_over_time[1].date = <<2023, 12, 25>>
    /\ get_period_key("week", trend.to_date) = <<2023, 12, 25>>

C16_EveryTransitionCountedOnce ==
    (/\ trend.pc = "done"
     /\ trend.response.outcome = "ok"
     /\ DatetimeLE(trend.from_date, trend.to_date))
    => LET minis == trend.miniatures
           series == trend.response.status_trends
           InWindow(e) == /\ toordinal(trend.from_date) <= toordinal(e.date)
                          /\ toordinal(e.date) <= toordinal(trend.to_date)
           Entries == UNION {{<<i, k>> : k \in 1..Len(minis[i].status_history)} :
                             i \in 1..Len(minis)}
           Entry(ik) == minis[ik[1]].status_history[ik[2]]
           \* the entries in the window with this to_status and this bucket
           Counted(status, period) ==
               {ik \in Entries :
                   /\ InWindow(Entry(ik))
                   /\ Entry(ik).to_status = status
                   /\ get_period_key(trend.group_by, Entry(ik).date) = period}
       IN /\ Len(series) = Cardinality(PaintingStatus)
          /\ \A s \in PaintingStatus : \E n \in 1..Len(series) : series[n].status = s
          /\ \A n \in 1..Len(series) : \A p \in 1..Len(series[n].data_points) :
                series[n].data_points[p].count
                    = Cardinality(Counted(series[n].status, series[n].data_points[p].date))
          /\ \A ik \in Entries :
                InWindow(Entry(ik)) =>
                    \E n \in 1..Len(series) : \E p \in 1..Len(series[n].data_points) :
                        /\ series[n].status = Entry(ik).to_status
                        /\ series[n].data_points[p].date
                               = get_period_key(trend.group_by, Entry(ik).date)

\* C17: the most active period is a bucket whose acquisition count is the
\* highest, and among the buckets that share the highest count the earliest one,
\* whatever the order in which the miniatures and their entries are scanned.
\* Stated here for the requests that return a result with at least one
\* acquisition and with every acquisition in a bucket of the series.
C17_MostActiveIsEarliestMaximum ==
    (/\ trend.pc = "done"
     /\ trend.response.outcome = "ok"
     /\ trend.response.total_purchased > 0
     /\ LET bought == trend.response.purchases_over_time
            Sum[n \in 0..Len(bought)] == IF n = 0 THEN 0 ELSE Sum[n - 1] + bought[n].count
        IN Sum[Len(bought)] = trend.response.total_purchased)
    => LET bought == trend.response.purchases_over_time
           best == trend.response.most_active_month
       IN \E i \in 1..Len(bought) :
            /\ bought[i].date = best
            /\ \A j \in 1..Len(bought) :
                /\ bought[j].count <= bought[i].count
                /\ bought[j].count = bought[i].count => StrLE(best, bought[j].date)

\* C18: the average of acquisitions per bucket is the number of acquisitions in
\* [from, to] divided by the number of buckets from from to to inclusive, the
\* buckets without activity among them, rounded to one decimal at the end only.
\* Stated here for the four granularities and the requests with from <= to that
\* return a result; the average is held in tenths.
C18_AverageOverAllBuckets ==
    (/\ trend.pc = "done"
     /\ trend.response.outcome = "ok"
     /\ trend.group_by \in Granularities
     /\ DatetimeLE(trend.from_date, trend.to_date))
    => LET minis == trend.miniatures
           days == toordinal(trend.from_date)..toordinal(trend.to_date)
           buckets == Cardinality({get_period_key(trend.group_by, fromordinal(n)) : n \in days})
           acquired ==
               Cardinality(
                   {ik \in UNION {{<<i, k>> : k \in 1..Len(minis[i].status_history)} :
                                  i \in 1..Len(minis)} :
                       /\ minis[ik[1]].status_history[ik[2]].to_status = "purchased"
                       /\ toordinal(minis[ik[1]].status_history[ik[2]].date) \in days})
           tenths == trend.response.average_monthly_purchases
           off == 10 * acquired - tenths * buckets
       IN \* the nearest tenth of acquired / buckets
          /\ 2 * off <= buckets
          /\ -2 * off <= buckets

\* C19: a trend request whose from is later than its to ends in a validation
\* error and yields no trend result.
C19_ReversedRangeRejected ==
    (trend.pc = "done" /\ ~DatetimeLE(trend.from_date, trend.to_date))
    => trend.response.outcome # "ok"

\* C20: a trend request whose group_by is none of day, week, month and year ends
\* in a validation error and yields no series.
C20_UnknownGranularityRejected ==
    (trend.pc = "done" /\ trend.group_by \notin Granularities)
    => trend.response.outcome # "ok"

C22_EmptyCollectionIsZero ==
    (stats.pc = "done" /\ stats.miniatures = <<>>)
    => /\ stats.response.outcome = "ok"
       /\ stats.response.completion_percentage = 0
       /\ stats.response.total_units = 0
       /\ stats.response.total_models = 0

\* the file store, which holds no miniature, answers with the zero result
C22_Witness ==
    /\ stats.pc = "done"
    /\ backend = "file"
    /\ stats.miniatures = <<>>
    /\ stats.response.outcome = "ok"
    /\ stats.response.total_units = 0


\* C23: the status breakdown of the statistics has a key for every
\* PaintingStatus value, holding the number of miniatures in that status (0
\* where there is none), for every collection, the empty one included.
C23_StatusBreakdownZeroFilled ==
    stats.pc = "done"
    => LET minis == stats.miniatures
           breakdown == stats.response.status_breakdown
       IN /\ stats.response.outcome = "ok"
          /\ DOMAIN breakdown = PaintingStatus
          /\ \A status \in PaintingStatus :
                breakdown[status] =
                    Cardinality({i \in 1..Len(minis) : minis[i].status = status})

\* C24: the game system, unit type and faction breakdowns of the statistics hold
\* a key exactly for each value some miniature has, with the number of
\* miniatures having it; no key with count 0 appears.
C24_OnlyObservedKeys ==
    stats.pc = "done"
    => LET minis == stats.miniatures
           r == stats.response
           Count(field, value) ==
               Cardinality({i \in 1..Len(minis) : minis[i][field] = value})
           Observed(field) == {minis[i][field] : i \in 1..Len(minis)}
           Exact(breakdown, field) ==
               /\ DOMAIN breakdown = Observed(field)
               /\ \A value \in DOMAIN breakdown :
                     breakdown[value] = Count(field, value) /\ breakdown[value] >= 1
       IN /\ r.outcome = "ok"
          /\ Exact(r.game_system_breakdown, "game_system")
          /\ Exact(r.unit_type_breakdown, "unit_type")
          /\ Exact(r.faction_breakdown, "faction")

\* C25: the total cost of the statistics is the sum of the costs that are set,
\* and it is null exactly when no miniature has a cost set: a collection whose
\* only costs are 0 reports the total 0, not null.
C25_TotalCostNullOnlyWithoutCosts ==
    stats.pc = "done"
    => LET minis == stats.miniatures
           priced == {i \in 1..Len(minis) : minis[i].cost # NoCost}
           total == SumSeq([i \in 1..Len(minis) |->
                               IF i \in priced THEN minis[i].cost ELSE 0])
       IN /\ stats.response.outcome = "ok"
          /\ stats.response.total_cost = (IF priced = {} THEN NoCost ELSE total)


\* C26: in every ledger only the first entry, written when the miniature was
\* created, has from_status null: every entry after it, appended by an update of
\* the miniature or by add_status_log_entry, names the status it came from.
C26_OnlyFirstEntryHasNoFromStatus ==
    \A id \in Items :
        \A k \in 2..Len(History(id)) : History(id)[k].from_status # None


\* C27: a served delete of a miniature removes it and its whole ledger: the
\* miniature is no longer found, none of its former entries is in a ledger that
\* get_all_miniatures hands to the statistics and the trends (nor left in the
\* store), and every other miniature keeps its ledger and its status; a delete
\* of a miniature the caller does not hold is answered not-found and changes
\* nothing.
C27_DeleteRemovesItemAndLedger ==
    [][\A r \in DeleteInputs :
          delete_miniature(r[2], r[1]) =>
              IF Finds(r[2], r[1])
              THEN LET former == EntryIds(History(r[2]))
                   IN /\ outcome' = "ok"
                      /\ Items' = Items \ {r[2]}
                      /\ \A u \in Users : ~Finds(r[2], u)'
                      /\ \A id \in Items' :
                            /\ EntryIds(History(id)') \cap former = {}
                            /\ Ledgers'[id] = Ledgers[id]
                      /\ \A l \in status_log_entries' : l.miniature_id # r[2]
              ELSE /\ outcome' = "not_found"
                   /\ UNCHANGED <<data, miniatures, status_log_entries, users>>]_vars

\* the first miniature was deleted with its ledger while the second one,
\* created after it, is still there with its own
C27_Witness ==
    /\ served.op = "delete" /\ served.miniature_id = 1
    /\ nextEid = 3
    /\ Items = {2}
    /\ Len(History(2)) = 1
    /\ Status(2) = Last(History(2)).to_status


\* C28: a delete of a ledger entry never changes the status of a miniature: when
\* the entry deleted is the last one, the one the status came from, the status
\* stays as it was and is not recomputed from the entry that is last now.
C28_DeleteEntryKeepsStatus ==
    [][\A r \in DeleteLogInputs :
          delete_status_log(r[2], r[3], r[1]) =>
              /\ Items' = Items
              /\ \A id \in Items : Status(id)' = Status(id)]_vars

\* the entry of the move to purchased was deleted: the entry that is last now
\* says want_to_buy and the status is still purchased
C28_Witness ==
    \E id \in Items :
        /\ served.op = "delete_log" /\ served.miniature_id = id
        /\ served.log_id \notin EntryIds(History(id))
        /\ Len(History(id)) = 1
        /\ Last(History(id)).to_status = "want_to_buy"
        /\ Status(id) = "purchased"


\* C29: a request of one user addressed at a miniature of another user (an
\* update or a delete of the miniature, an append, an edit or a delete of a
\* ledger entry) leaves that miniature, its status and its ledger as its owner
\* read them before.
C29_OwnerIsolation ==
    [][\A id \in Items : \A u \in Users \ {Owner(id)} :
          (\/ \E r \in UpdateInputs : r[1] = u /\ r[2] = id /\ update_miniature(id, r[3], u)
           \/ delete_miniature(id, u)
           \/ \E r \in AddInputs : r[1] = u /\ r[2] = id /\ add_status_log(id, r[3], u)
           \/ \E r \in EditInputs :
                 r[1] = u /\ r[2] = id /\ update_status_log(id, r[3], r[4], u)
           \/ \E log_id \in Eids : delete_status_log(id, log_id, u))
          => /\ id \in Items'
             /\ Ledgers'[id] = Ledgers[id]]_vars


\* C30: in every trend result for a request with from <= to the summary agrees
\* with the series: total_purchased is the sum of the counts of the buckets
\* returned, and the most active period, when there is one, is the key of one of
\* the buckets returned.
C30_SummaryAgreesWithSeries ==
    (/\ trend.pc = "done"
     /\ DatetimeLE(trend.from_date, trend.to_date)
     /\ trend.response.outcome = "ok")
    => LET bought == trend.response.purchases_over_time
           Total[n \in 0..Len(bought)] ==
               IF n = 0 THEN 0 ELSE Total[n - 1] + bought[n].count
       IN /\ trend.response.total_purchased = Total[Len(bought)]
          /\ trend.response.most_active_month # NoPeriod
                => \E i \in 1..Len(bought) :
                      bought[i].date = trend.response.most_active_month

====
